---- MODULE Spec2Model ----
(***************************************************************************)
(* Model of tap-iterable: the date-time interval paginator, the campaign   *)
(* id aggregation buffer, the record normalizers of the export and         *)
(* experiment-metrics streams, and the spooled decode of export responses. *)
(*                                                                         *)
(* Each subsystem has its own specification (SpecPag, SpecBuf, ...) over   *)
(* its own group of variables; the other groups stay at their idle value.  *)
(***************************************************************************)
EXTENDS Integers, Sequences, FiniteSets, TLC

(***************************************************************************)
(* Optional values: Python's None is the empty tuple, a value v is <<v>>.  *)
(***************************************************************************)
None == <<>>

Some(v) == <<v>>

IsNone(x) == x = <<>>

Val(x) == x[1]

Min(a, b) == IF a < b THEN a ELSE b

(***************************************************************************)
(* PAGINATOR (pagination.py, _ExportStream.get_new_paginator/get_url_params)*)
(*                                                                         *)
(* Time is discrete (one unit = the clock's resolution).  Every datetime   *)
(* the program holds is stored as its signed offset from the current       *)
(* instant: datetime.now() is 0, a past instant is negative, and the       *)
(* passage of d units of time (Tick) lowers every stored datetime by d.    *)
(* The clock itself is therefore unbounded; MaxLag only bounds how far     *)
(* behind the present the cursor may be.                                   *)
(***************************************************************************)
MaxLag == 7

MaxAhead == 1

MaxInterval == 3

MaxTick == 3

MaxPageRecords == 1

\* units of the clock per second: strftime("%Y-%m-%d %H:%M:%S") drops the rest
Resolution == 2

VARIABLES
    interval,       \* DateTimeIntervalPaginator.interval
    current_value,  \* BaseAPIPaginator.current_value: <<start, end>>, end optional
    phase,          \* the current instant modulo one second
    elapsed,        \* time since the paginator last read datetime.now(), capped at interval
    pagPc,          \* request loop: "idle" | "request" | "advance" | "ended"
    stopReason,     \* why the loop ended: "" | "get_next_none" | "empty_page"
    page_records,   \* number of records of the page just fetched
    last_call,      \* optional [arg, ret]: the last get_next call, its cursor and its result
    params,         \* optional url params of the last request
    prev_params     \* optional url params of the request before it

pagVars == <<interval, current_value, phase, elapsed, pagPc, stopReason,
             page_records, last_call, params, prev_params>>

VARIABLES
    buffer,     \* the BufferDeque
    appended,   \* the ids appended so far, in order
    batches,    \* the batches the reader was handed, in order
    bufPc       \* "idle" | "open" | "finalized"

bufVars == <<buffer, appended, batches, bufPc>>

VARIABLES
    pp_stream,    \* the export stream being synced
    ppPc,         \* "idle" | "running" | "aborted" (an error left post_process)
    last_row,     \* optional: the last record handed to post_process
    last_result,  \* optional: what post_process did with it
    processed     \* number of records handed to post_process

ppVars == <<pp_stream, ppPc, last_row, last_result, processed>>

VARIABLES
    header,     \* optional: a CSV column header, a sequence of characters
    new_key,    \* optional: the header normalized
    new_key2    \* optional: the normalized header normalized again

hdrVars == <<header, new_key, new_key2>>

VARIABLES
    csv_value,    \* optional: the value of a CSV cell, a sequence of characters
    declared,     \* the property's declared types (empty: no such property)
    cast_result   \* optional: what post_process did with the value

numVars == <<csv_value, declared, cast_result>>

VARIABLES
    response_body,  \* the whole body of the export response
    unsent,         \* the part of the body iter_content has not yet delivered
    res,            \* resources: [conn, tmpdir, spool, handle]
    with_stack,     \* the context managers entered and not yet exited
    lines,          \* the lines of the spool file not yet read
    records,        \* the records yielded so far
    decPc,          \* position of the generator in parse_response
    exit_path       \* how the decode ended

decVars == <<response_body, unsent, res, with_stack, lines, records, decPc, exit_path>>

VARIABLES
    dt_stream,   \* "" | "rest" | "export": the kind of stream being synced
    dt_row,      \* optional: the last record handed to post_process
    dt_result    \* optional: the record post_process returned

dtVars == <<dt_stream, dt_row, dt_result>>

VARIABLES
    child_selected,  \* whether email_templates is selected
    tpl_pending,     \* the records _templates_context has not yet yielded
    tpl_context,     \* optional: the context the templates stream is synced with
    tpl_records,     \* the templateIds of the records yielded under that context
    child_syncs,     \* the child syncs made under that context, in order
    tplPc            \* "idle" | "running" | "done"

tplVars == <<child_selected, tpl_pending, tpl_context, tpl_records, child_syncs, tplPc>>

VARIABLES
    campaigns,             \* the number of records of the campaigns response
    cmpPc,                 \* "idle" | "loop" | "finalized" | "done" | "raised"
    loop_record,           \* optional: the loop variable `record` of parse_response
    yielded,               \* the records parse_response has yielded, in order
    _campaign_ids_buffer,  \* the BufferDeque of the campaigns stream
    child_requests         \* the parameters of the experiment_metrics requests

cmpVars == <<campaigns, cmpPc, loop_record, yielded, _campaign_ids_buffer, child_requests>>

vars == <<pagVars, bufVars, ppVars, hdrVars, numVars, decVars, dtVars, tplVars, cmpVars>>

\* what an action of one subsystem leaves alone: the other subsystems
notPag == <<bufVars, ppVars, hdrVars, numVars, decVars, dtVars, tplVars, cmpVars>>

notBuf == <<pagVars, ppVars, hdrVars, numVars, decVars, dtVars, tplVars, cmpVars>>

notPP == <<pagVars, bufVars, hdrVars, numVars, decVars, dtVars, tplVars, cmpVars>>

notHdr == <<pagVars, bufVars, ppVars, numVars, decVars, dtVars, tplVars, cmpVars>>

notNum == <<pagVars, bufVars, ppVars, hdrVars, decVars, dtVars, tplVars, cmpVars>>

notDec == <<pagVars, bufVars, ppVars, hdrVars, numVars, dtVars, tplVars, cmpVars>>

notDT == <<pagVars, bufVars, ppVars, hdrVars, numVars, decVars, tplVars, cmpVars>>

notTpl == <<pagVars, bufVars, ppVars, hdrVars, numVars, decVars, dtVars, cmpVars>>

notCmp == <<pagVars, bufVars, ppVars, hdrVars, numVars, decVars, dtVars, tplVars>>

\* pagination.py:35-39; now is offset 0
_get_date_range(start, delta) ==
    LET end == start + delta
    IN  <<start, IF end < 0 THEN Some(end) ELSE None>>

\* pagination.py:22-29
get_next_from_start(cv, delta) ==
    IF IsNone(cv[2]) THEN None ELSE Some(_get_date_range(cv[1], delta))

get_next_overlapping(cv, delta) ==
    IF IsNone(cv[2]) THEN None ELSE Some(_get_date_range(Val(cv[2]) - 1, delta))

get_next(cv, delta) ==
    LET end_date == cv[2]
    IN  IF IsNone(end_date) THEN None ELSE Some(_get_date_range(Val(end_date), delta))

\* pagination.py:31-33
continue_if_empty_false(response) == FALSE

continue_if_empty(response) == TRUE

\* strftime(r"%Y-%m-%d %H:%M:%S"): the datetime truncated to the second
strftime(t, ph) == t - ((t + ph) % Resolution)

\* streams.py:259-267
get_url_params(next_page_token, ph) ==
    LET start == next_page_token[1]
        end == next_page_token[2]
    IN  [startDateTime |-> strftime(start, ph),
         endDateTime |-> IF IsNone(end) THEN None ELSE Some(strftime(Val(end), ph))]

\* the passage of d units of time, applied to the stored datetimes
ShiftOpt(x, d) == IF IsNone(x) THEN None ELSE Some(Val(x) - d)

ShiftCursor(cv, d) == <<cv[1] - d, ShiftOpt(cv[2], d)>>

ShiftParams(p, d) ==
    IF IsNone(p) THEN None
    ELSE Some([startDateTime |-> Val(p).startDateTime - d,
               endDateTime |-> ShiftOpt(Val(p).endDateTime, d)])

ShiftCall(c, d) ==
    IF IsNone(c) THEN None
    ELSE Some([arg |-> ShiftCursor(Val(c).arg, d),
               ret |-> IF IsNone(Val(c).ret) THEN None
                       ELSE Some(ShiftCursor(Val(Val(c).ret), d))])

PagIdle ==
    /\ interval = 0
    /\ current_value = <<0, None>>
    /\ phase = 0
    /\ elapsed = 0
    /\ pagPc = "idle"
    /\ stopReason = ""
    /\ page_records = 0
    /\ last_call = None
    /\ params = None
    /\ prev_params = None

\* streams.py:252-257 and pagination.py:17-20: a new paginator for a starting timestamp
PagInit ==
    /\ interval \in 1..MaxInterval
    /\ \E start \in (0 - MaxLag)..MaxAhead : current_value = _get_date_range(start, interval)
    /\ phase \in 0..(Resolution - 1)
    /\ elapsed = 0
    /\ pagPc = "request"
    /\ stopReason = ""
    /\ page_records = 0
    /\ last_call = None
    /\ params = None
    /\ prev_params = None

\* the wall clock advances by d between two steps of the program
Tick(d) ==
    /\ pagPc # "idle"
    /\ current_value[1] - d >= 0 - MaxLag
    /\ current_value' = ShiftCursor(current_value, d)
    /\ last_call' = ShiftCall(last_call, d)
    /\ params' = ShiftParams(params, d)
    /\ prev_params' = ShiftParams(prev_params, d)
    /\ phase' = (phase + d) % Resolution
    /\ elapsed' = Min(elapsed + d, interval)
    /\ UNCHANGED <<interval, pagPc, stopReason, page_records>>
    /\ UNCHANGED notPag

\* one request of the loop: the url params of the current cursor, and a page of n records
FetchPage(n) ==
    /\ pagPc = "request"
    /\ params' = Some(get_url_params(current_value, phase))
    /\ prev_params' = params
    /\ page_records' = n
    /\ pagPc' = "advance"
    /\ UNCHANGED <<interval, current_value, phase, elapsed, stopReason, last_call>>
    /\ UNCHANGED notPag

\* after the page: an empty page ends the loop unless continue_if_empty; otherwise
\* the paginator advances to get_next, and finishes when that is None
Advance ==
    /\ pagPc = "advance"
    /\ IF page_records = 0 /\ ~continue_if_empty(page_records)
       THEN /\ pagPc' = "ended"
            /\ stopReason' = "empty_page"
            /\ UNCHANGED <<current_value, last_call, elapsed>>
       ELSE LET new_value == get_next(current_value, interval)
            IN  /\ last_call' = Some([arg |-> current_value, ret |-> new_value])
                /\ IF IsNone(new_value)
                   THEN /\ pagPc' = "ended"
                        /\ stopReason' = "get_next_none"
                        /\ UNCHANGED <<current_value, elapsed>>
                   ELSE /\ pagPc' = "request"
                        /\ current_value' = Val(new_value)
                        /\ elapsed' = 0
                        /\ UNCHANGED stopReason
    /\ UNCHANGED <<interval, phase, page_records, params, prev_params>>
    /\ UNCHANGED notPag

(***************************************************************************)
(* AGGREGATION BUFFER (BufferDeque of tap_iterable/__init__.py, and its use *)
(* by CampaignsStream, streams.py:79-99).  A buffer is a record            *)
(* [items, _flush, maxlen]: a deque with a maximum length and the finalize *)
(* flag.                                                                   *)
(***************************************************************************)
MaxCapacity == 3

MaxAppends == 5

MaxId == 2

\* BufferDeque(maxlen=n)
NewBuffer(n) == [items |-> <<>>, _flush |-> FALSE, maxlen |-> n]

\* deque.append: a full deque drops its leftmost item
BufAppend(b, x) ==
    [b EXCEPT !.items = IF Len(b.items) = b.maxlen
                        THEN Append(Tail(b.items), x)
                        ELSE Append(b.items, x)]

\* BufferDeque.flush: full, or finalized
BufFlush(b) == b._flush \/ Len(b.items) = b.maxlen

\* BufferDeque.finalize
BufFinalize(b) == [b EXCEPT !._flush = TRUE]

\* BufferDeque.__exit__: a flushed buffer is cleared and begins a new batch
BufExit(b) == IF BufFlush(b) THEN [b EXCEPT !.items = <<>>, !._flush = FALSE] ELSE b

\* streams.py:97-99: `with buf: if buf.flush: yield {"campaign_ids": buf}`; the
\* batch handed to the reader (if any) and the buffer after the with block
ReadBufferUnguarded(b) == [batch |-> Some(b.items), buf |-> BufExit(b)]

ReadBuffer(b) ==
    [batch |-> IF BufFlush(b) THEN Some(b.items) ELSE None, buf |-> BufExit(b)]

BufIdle ==
    /\ buffer = NewBuffer(0)
    /\ appended = <<>>
    /\ batches = <<>>
    /\ bufPc = "idle"

\* streams.py:79-82, for a capacity N
BufInit ==
    /\ \E n \in 1..MaxCapacity : buffer = NewBuffer(n)
    /\ appended = <<>>
    /\ batches = <<>>
    /\ bufPc = "open"

\* streams.py:93-99: an id is appended and the buffer is read
AppendAndRead(id) ==
    /\ bufPc = "open"
    /\ Len(appended) < MaxAppends
    /\ LET r == ReadBuffer(BufAppend(buffer, id))
       IN  /\ buffer' = r.buf
           /\ batches' = IF IsNone(r.batch) THEN batches ELSE Append(batches, Val(r.batch))
    /\ appended' = Append(appended, id)
    /\ UNCHANGED bufPc
    /\ UNCHANGED notBuf

\* streams.py:90 and 97-99: the buffer is finalized and read
FinalizeAndRead ==
    /\ bufPc = "open"
    /\ LET r == ReadBuffer(BufFinalize(buffer))
       IN  /\ buffer' = r.buf
           /\ batches' = IF IsNone(r.batch) THEN batches ELSE Append(batches, Val(r.batch))
    /\ bufPc' = "finalized"
    /\ UNCHANGED appended
    /\ UNCHANGED notBuf

(***************************************************************************)
(* EXPORT RECORD NORMALIZER (_ExportStream.post_process, streams.py:310-327,*)
(* UsersStream.post_process, streams.py:537-552).  A record is a function  *)
(* from the keys it holds to their values; the value "null" is None.       *)
(***************************************************************************)
MaxRecords == 2

ExportStreams == {"custom_event", "web_push_click", "users"}

\* streams.py:559, 451, 532
primary_keys(stream) ==
    CASE stream = "custom_event" -> <<"createdAt", "email">>
      [] stream = "web_push_click" -> <<"messageId">>
      [] stream = "users" -> <<"email">>
      [] OTHER -> <<>>

\* schema["properties"] of the users stream, restricted to the keys of the model
UsersSchemaProperties == {"email", "createdAt"}

Fields == {"messageId", "createdAt", "email", "transactionalData", "favouriteColour"}

\* the values a key may hold: None, a plain value; transactionalData may also be
\* the empty string, a JSON document or text that is not JSON
FieldValues(k) ==
    IF k = "transactionalData" THEN {"null", "", "json", "notjson"} ELSE {"null", "v"}

Rows == UNION {{r \in [K -> {"null", "", "json", "notjson", "v"}] :
                  \A k \in K : r[k] \in FieldValues(k)} : K \in SUBSET Fields}

\* dict.get: None for an absent key
Get(row, k) == IF k \in DOMAIN row THEN row[k] ELSE "null"

\* [k for k in self.primary_keys if row.get(k) is None]
RECURSIVE BadKeys(_, _)
BadKeys(keys, row) ==
    IF keys = <<>> THEN <<>>
    ELSE (IF Get(row, Head(keys)) = "null" THEN <<Head(keys)>> ELSE <<>>)
         \o BadKeys(Tail(keys), row)

\* a result of post_process: the returned record (None: dropped), the warnings
\* logged, the exception that left it ("" for none), and the keys bucketed
Result(ret, warnings, raised, bucketed) ==
    [ret |-> ret, warnings |-> warnings, raised |-> raised, bucketed |-> bucketed]

\* streams.py:310-327
ExportPostProcess(stream, row) ==
    LET bad_keys == BadKeys(primary_keys(stream), row)
        transactional_data == Get(row, "transactionalData")
    IN  IF primary_keys(stream) # <<>> /\ bad_keys # <<>>
        THEN Result(None, <<bad_keys>>, "", {})
        ELSE IF transactional_data \notin {"null", ""}
        THEN IF transactional_data = "json"
             THEN Result(Some([row EXCEPT !["transactionalData"] = "object"]), <<>>, "", {})
             ELSE Result(None, <<>>, "JSONDecodeError", {})
        ELSE Result(Some(row), <<>>, "", {})

\* streams.py:537-552: the result of super().post_process is used as a dict
UsersPostProcess(row) ==
    LET r == ExportPostProcess("users", row)
    IN  IF r.raised # "" THEN r
        ELSE IF IsNone(r.ret)
        THEN [r EXCEPT !.raised = "AttributeError"]
        ELSE LET kept == DOMAIN Val(r.ret) \cap UsersSchemaProperties
                 data_fields == DOMAIN Val(r.ret) \ UsersSchemaProperties
             IN  Result(Some([k \in kept \cup {"dataFields"} |->
                                IF k = "dataFields" THEN "object" ELSE Val(r.ret)[k]]),
                        r.warnings, "", data_fields)

\* the post_process of the stream's class
post_process(stream, row) ==
    IF stream = "users" THEN UsersPostProcess(row) ELSE ExportPostProcess(stream, row)

PPIdle ==
    /\ pp_stream = ""
    /\ ppPc = "idle"
    /\ last_row = None
    /\ last_result = None
    /\ processed = 0

PPInit ==
    /\ pp_stream \in ExportStreams
    /\ ppPc = "running"
    /\ last_row = None
    /\ last_result = None
    /\ processed = 0

\* the sync hands the next record of the response to post_process; a record
\* for which it returns None is skipped, an exception aborts the sync
ProcessRecord(row) ==
    /\ ppPc = "running"
    /\ processed < MaxRecords
    /\ LET r == post_process(pp_stream, row)
       IN  /\ last_result' = Some(r)
           /\ ppPc' = IF r.raised # "" THEN "aborted" ELSE "running"
    /\ last_row' = Some(row)
    /\ processed' = processed + 1
    /\ UNCHANGED pp_stream
    /\ UNCHANGED notPP

(***************************************************************************)
(* CSV HEADER NORMALIZATION (ExperimentMetrics.post_process,               *)
(* streams.py:654-659).  A string is a sequence of one-character strings.  *)
(***************************************************************************)
MaxHeaderLen == 4

HeaderAlphabet == {"a", "M", " ", "/", "_", "1"}

RECURSIVE StringsUpTo(_, _)
StringsUpTo(alphabet, n) ==
    IF n = 0 THEN {<<>>}
    ELSE LET shorter == StringsUpTo(alphabet, n - 1)
         IN  shorter \cup {Append(s, c) : s \in shorter, c \in alphabet}

Headers == StringsUpTo(HeaderAlphabet, MaxHeaderLen)

UpperLetters == {"A", "E", "I", "L", "M", "P", "R"}

LowerLetters == {"a", "e", "i", "l", "m", "p", "r"}

Digits == {"0", "1", "2", "3", "4", "5", "6", "7", "8", "9"}

LowerChar(c) ==
    CASE c = "A" -> "a" [] c = "E" -> "e" [] c = "I" -> "i" [] c = "L" -> "l"
      [] c = "M" -> "m" [] c = "P" -> "p" [] c = "R" -> "r" [] OTHER -> c

UpperChar(c) ==
    CASE c = "a" -> "A" [] c = "e" -> "E" [] c = "i" -> "I" [] c = "l" -> "L"
      [] c = "m" -> "M" [] c = "p" -> "P" [] c = "r" -> "R" [] OTHER -> c

\* str.lower
Lower(s) == [i \in 1..Len(s) |-> LowerChar(s[i])]

\* str.isupper: a cased character, and no lower-case one
isupper(s) ==
    /\ \E i \in 1..Len(s) : s[i] \in UpperLetters
    /\ \A i \in 1..Len(s) : s[i] \notin LowerLetters

\* str.isnumeric
isnumeric(s) == Len(s) > 0 /\ \A i \in 1..Len(s) : s[i] \in Digits

\* str.replace("/ m", "per mile")
RECURSIVE ReplaceSlashM(_)
ReplaceSlashM(s) ==
    IF s = <<>> THEN <<>>
    ELSE IF Len(s) >= 3 /\ SubSeq(s, 1, 3) = <<"/", " ", "m">>
    THEN <<"p", "e", "r", " ", "m", "i", "l", "e">> \o ReplaceSlashM(SubSeq(s, 4, Len(s)))
    ELSE <<Head(s)>> \o ReplaceSlashM(Tail(s))

\* re.sub(r"\s", "_", s)
SpaceToUnderscore(s) == [i \in 1..Len(s) |-> IF s[i] = " " THEN "_" ELSE s[i]]

\* \w: a letter, a digit or the underscore
IsWordChar(c) == c \in UpperLetters \cup LowerLetters \cup Digits \cup {"_"}

\* re.sub(r"[\W]", "", s)
StripNonWord(s) == SelectSeq(s, IsWordChar)

\* humps: the separators of UNDERSCORE_RE = (?<=[^\-_])[\-_]+[^\-_]
IsSeparator(c) == c \in {"-", "_"}

\* the last index of the run of separators that starts at i
RECURSIVE RunEnd(_, _)
RunEnd(s, i) == IF i < Len(s) /\ IsSeparator(s[i + 1]) THEN RunEnd(s, i + 1) ELSE i

\* UNDERSCORE_RE.sub(lambda m: m.group(0)[-1].upper(), s), scanning from index i
RECURSIVE UnderscoreSub(_, _)
UnderscoreSub(s, i) ==
    IF i > Len(s) THEN <<>>
    ELSE IF i > 1 /\ IsSeparator(s[i]) /\ ~IsSeparator(s[i - 1])
    THEN LET j == RunEnd(s, i)
         IN  IF j < Len(s)
             THEN <<UpperChar(s[j + 1])>> \o UnderscoreSub(s, j + 2)
             ELSE SubSeq(s, i, Len(s))
    ELSE <<s[i]>> \o UnderscoreSub(s, i + 1)

\* humps.camelize
camelize(str) ==
    IF isupper(str) \/ isnumeric(str) THEN str
    ELSE LET s == IF Len(str) # 0 /\ ~isupper(SubSeq(str, 1, Min(2, Len(str))))
                  THEN <<LowerChar(str[1])>> \o Tail(str)
                  ELSE str
         IN  UnderscoreSub(s, 1)

\* streams.py:655-659
normalize_without_lower(k) ==
    camelize(StripNonWord(SpaceToUnderscore(ReplaceSlashM(k))))

normalize(k) ==
    camelize(StripNonWord(SpaceToUnderscore(ReplaceSlashM(Lower(k)))))

HdrIdle ==
    /\ header = None
    /\ new_key = None
    /\ new_key2 = None

HdrInit ==
    /\ \E h \in Headers : header = Some(h)
    /\ new_key = None
    /\ new_key2 = None

\* streams.py:654-659: the key of a CSV row is normalized
NormalizeHeader ==
    /\ ~IsNone(header)
    /\ IsNone(new_key)
    /\ new_key' = Some(normalize(Val(header)))
    /\ UNCHANGED <<header, new_key2>>
    /\ UNCHANGED notHdr

\* the normalized key is normalized again
NormalizeAgain ==
    /\ ~IsNone(new_key)
    /\ IsNone(new_key2)
    /\ new_key2' = Some(normalize(Val(new_key)))
    /\ UNCHANGED <<header, new_key>>
    /\ UNCHANGED notHdr

(***************************************************************************)
(* NUMERIC RETYPING (ExperimentMetrics.post_process, streams.py:661-703).  *)
(* A decimal is [kind, sign, int, frac]: kind "finite", "nan" or "inf", or *)
(* "invalid" where decimal.Decimal raises InvalidOperation; int is the     *)
(* value of the digits before the point and frac the digits after it.      *)
(***************************************************************************)
MaxValueLen == 4

ValueAlphabet == {"7", ".", "-", "n", "a", "i", "f"}

CsvValues == StringsUpTo(ValueAlphabet, MaxValueLen)

\* the "type" of a schema property: th.IntegerType, th.NumberType, th.StringType;
\* {} stands for a key the schema does not declare
DeclaredTypes == {{"integer", "null"}, {"number", "null"}, {"string", "null"}, {}}

DigitValue(c) ==
    CASE c = "0" -> 0 [] c = "1" -> 1 [] c = "2" -> 2 [] c = "3" -> 3 [] c = "4" -> 4
      [] c = "5" -> 5 [] c = "6" -> 6 [] c = "7" -> 7 [] c = "8" -> 8 [] c = "9" -> 9

RECURSIVE DigitsValue(_)
DigitsValue(ds) ==
    IF ds = <<>> THEN 0
    ELSE 10 * DigitsValue(SubSeq(ds, 1, Len(ds) - 1)) + DigitValue(ds[Len(ds)])

RECURSIVE Pow10(_)
Pow10(k) == IF k = 0 THEN 1 ELSE 10 * Pow10(k - 1)

AllDigits(s) == \A i \in 1..Len(s) : s[i] \in Digits

\* the index of the first "." of s, 0 when it has none
RECURSIVE PointIndex(_, _)
PointIndex(s, i) ==
    IF i > Len(s) THEN 0 ELSE IF s[i] = "." THEN i ELSE PointIndex(s, i + 1)

Dec(kind, sign, int, frac) == [kind |-> kind, sign |-> sign, int |-> int, frac |-> frac]

\* decimal.Decimal(value) of a string: [sign] digits[.digits] | [sign] .digits |
\* [sign] inf | [sign] nan[digits]; anything else signals InvalidOperation
Decimal(value) ==
    LET signed == value # <<>> /\ value[1] = "-"
        sign == IF signed THEN 0 - 1 ELSE 1
        body == IF signed THEN Tail(value) ELSE value
        p == PointIndex(body, 1)
        ip == IF p = 0 THEN body ELSE SubSeq(body, 1, p - 1)
        fp == IF p = 0 THEN <<>> ELSE SubSeq(body, p + 1, Len(body))
    IN  IF Len(body) >= 3 /\ SubSeq(body, 1, 3) = <<"n", "a", "n">>
           /\ AllDigits(SubSeq(body, 4, Len(body)))
        THEN Dec("nan", sign, 0, <<>>)
        ELSE IF body = <<"i", "n", "f">>
        THEN Dec("inf", sign, 0, <<>>)
        ELSE IF AllDigits(ip) /\ AllDigits(fp) /\ Len(ip) + Len(fp) > 0
        THEN Dec("finite", sign, DigitsValue(ip), fp)
        ELSE Dec("invalid", sign, 0, <<>>)

\* a value of the processed row: None, an int n, a float n / 10^scale (or the
\* float nan or inf), or the string s left as it was
Value(kind, n, scale, s) == [kind |-> kind, n |-> n, scale |-> scale, s |-> s]

NoneValue == Value("None", 0, 0, <<>>)

\* what the numeric part does with a value: the value set, and the exception raised
Outcome(value, raised) == [value |-> value, raised |-> raised]

\* int(d): truncates towards zero; raises on a NaN and on an infinity
IntCast(d) ==
    CASE d.kind = "nan" -> Outcome(NoneValue, "ValueError")
      [] d.kind = "inf" -> Outcome(NoneValue, "OverflowError")
      [] OTHER -> Outcome(Value("int", d.sign * d.int, 0, <<>>), "")

\* float(d)
FloatCast(d) ==
    CASE d.kind = "nan" -> Outcome(Value("float_nan", 0, 0, <<>>), "")
      [] d.kind = "inf" -> Outcome(Value("float_inf", d.sign, 0, <<>>), "")
      [] OTHER -> Outcome(Value("float",
                                d.sign * (d.int * Pow10(Len(d.frac)) + DigitsValue(d.frac)),
                                Len(d.frac), <<>>), "")

\* streams.py:669-681: the first of int, float whose type name the property declares
numeric_typecast(property_type) ==
    IF "integer" \in property_type THEN "int"
    ELSE IF "number" \in property_type THEN "float"
    ELSE "none"

\* streams.py:683-701
NumericCastNanOnly(typecast, value) ==
    LET parsed == Decimal(value)
        d == IF parsed.kind = "invalid" THEN Dec("nan", 1, 0, <<>>) ELSE parsed
    IN  IF d.kind = "nan"
        THEN Outcome(NoneValue, "")
        ELSE IF typecast = "int" THEN IntCast(d) ELSE FloatCast(d)

NumericCast(typecast, value) ==
    LET parsed == Decimal(value)
        \* except decimal.DecimalException: d = decimal.Decimal(math.nan)
        d == IF parsed.kind = "invalid" THEN Dec("nan", 1, 0, <<>>) ELSE parsed
    IN  IF d.kind = "nan" \/ d.kind = "inf"
        THEN Outcome(NoneValue, "")
        ELSE IF typecast = "int" THEN IntCast(d) ELSE FloatCast(d)

\* streams.py:661-703, for one key: whether row[new_key] is set, to what, and the
\* exception that left post_process
PostProcessValue(property_type, value) ==
    IF value = <<>>
    THEN [set |-> TRUE, value |-> NoneValue, raised |-> ""]
    ELSE IF property_type = {}
    THEN [set |-> FALSE, value |-> NoneValue, raised |-> ""]
    ELSE IF numeric_typecast(property_type) # "none"
    THEN LET o == NumericCast(numeric_typecast(property_type), value)
         IN  [set |-> o.raised = "", value |-> o.value, raised |-> o.raised]
    ELSE [set |-> TRUE, value |-> Value("str", 0, 0, value), raised |-> ""]

NumIdle ==
    /\ csv_value = None
    /\ declared = {}
    /\ cast_result = None

NumInit ==
    /\ \E v \in CsvValues : csv_value = Some(v)
    /\ declared \in DeclaredTypes
    /\ cast_result = None

\* streams.py:661-703: the value of one key of the row is processed
ProcessValue ==
    /\ ~IsNone(csv_value)
    /\ IsNone(cast_result)
    /\ cast_result' = Some(PostProcessValue(declared, Val(csv_value)))
    /\ UNCHANGED <<csv_value, declared>>
    /\ UNCHANGED notNum

(***************************************************************************)
(* SPOOLED DECODE (_ExportStream.parse_response, streams.py:289-308).      *)
(* The body is a sequence of characters, "\n" ending a line; "1" and "2"   *)
(* are the characters of a JSON document (a number), "x" is not JSON.      *)
(* res.conn is the HTTP connection ("open" | "released"), res.tmpdir the   *)
(* temporary directory ("none" | "exists" | "deleted"), res.spool the      *)
(* content of the spool file (None: no such file), res.handle the open     *)
(* file object ("closed" | "wb" | "r").                                    *)
(***************************************************************************)
MaxBodyLen == 5

MaxChunk == 3

BodyAlphabet == {"1", "2", "\n", "x"}

Bodies == StringsUpTo(BodyAlphabet, MaxBodyLen)

\* __exit__ of one context manager: the file object closes, the response
\* releases its connection, the TemporaryDirectory removes itself and its files
ExitItem(item, r) ==
    CASE item = "file" -> [r EXCEPT !.handle = "closed"]
      [] item = "response" -> [r EXCEPT !.conn = "released"]
      [] item = "tmpdir" -> [r EXCEPT !.tmpdir = "deleted", !.spool = None]

\* leaving the with statements of the stack, innermost first
RECURSIVE ExitAll(_, _)
ExitAll(stack, r) ==
    IF stack = <<>> THEN r
    ELSE ExitAll(SubSeq(stack, 1, Len(stack) - 1), ExitItem(stack[Len(stack)], r))

\* streams.py:294-297: the context managers of the inner with statement
InnerWithItemsFileOnly == <<"file">>

InnerWithItems == <<"response", "file">>

\* streams.py:300: f.write(chunk) on the file opened once, "wb"
WriteReopened(content, chunk) == chunk

Write(content, chunk) == content \o chunk

\* streams.py:306: `for line in f`: the lines of the file, each with its "\n";
\* a last line without "\n" is a line too
RECURSIVE ReadLines(_, _)
ReadLines(content, line) ==
    IF content = <<>> THEN (IF line = <<>> THEN <<>> ELSE <<line>>)
    ELSE IF Head(content) = "\n"
    THEN <<Append(line, "\n")>> \o ReadLines(Tail(content), <<>>)
    ELSE ReadLines(Tail(content), Append(line, Head(content)))

\* str.strip of the white space json.loads ignores
StripLine(line) == SelectSeq(line, LAMBDA c : c # "\n")

\* json.loads(line, parse_float=decimal.Decimal): the number the line holds;
\* None stands for JSONDecodeError
json_loads(line) ==
    LET doc == StripLine(line)
    IN  IF doc # <<>> /\ AllDigits(doc) THEN Some(DigitsValue(doc)) ELSE None

DecIdle ==
    /\ response_body = <<>>
    /\ unsent = <<>>
    /\ res = [conn |-> "released", tmpdir |-> "none", spool |-> None, handle |-> "closed"]
    /\ with_stack = <<>>
    /\ lines = <<>>
    /\ records = <<>>
    /\ decPc = "idle"
    /\ exit_path = ""

\* streams.py:269-287: _request returns the streamed response, its connection open
DecInit ==
    /\ response_body \in Bodies
    /\ unsent = response_body
    /\ res = [conn |-> "open", tmpdir |-> "none", spool |-> None, handle |-> "closed"]
    /\ with_stack = <<>>
    /\ lines = <<>>
    /\ records = <<>>
    /\ decPc = "start"
    /\ exit_path = ""

\* an exception (or GeneratorExit) leaves the generator through its with statements
Leave(stack, path) ==
    /\ res' = ExitAll(stack, res)
    /\ with_stack' = <<>>
    /\ decPc' = "ended"
    /\ exit_path' = path

\* streams.py:291
EnterTemporaryDirectory ==
    /\ decPc = "start"
    /\ res' = [res EXCEPT !.tmpdir = "exists"]
    /\ with_stack' = <<"tmpdir">>
    /\ decPc' = "opening"
    /\ UNCHANGED <<response_body, unsent, lines, records, exit_path>>
    /\ UNCHANGED notDec

\* streams.py:294-297: the response is entered and the spool file opened
EnterInnerWith ==
    /\ decPc = "opening"
    /\ res' = [res EXCEPT !.spool = Some(<<>>), !.handle = "wb"]
    /\ with_stack' = with_stack \o InnerWithItems
    /\ decPc' = "writing"
    /\ UNCHANGED <<response_body, unsent, lines, records, exit_path>>
    /\ UNCHANGED notDec

\* streams.py:296: filepath.open("wb") raises, after the response was entered
OpenFails ==
    /\ decPc = "opening"
    /\ Leave(with_stack \o SubSeq(InnerWithItems, 1, Len(InnerWithItems) - 1), "open_error")
    /\ UNCHANGED <<response_body, unsent, lines, records>>
    /\ UNCHANGED notDec

\* streams.py:299-300: iter_content delivers the next k characters, f.write spools them
WriteChunk(k) ==
    /\ decPc = "writing"
    /\ k <= Len(unsent)
    /\ res' = [res EXCEPT !.spool = Some(Write(Val(res.spool), SubSeq(unsent, 1, k)))]
    /\ unsent' = SubSeq(unsent, k + 1, Len(unsent))
    /\ UNCHANGED <<response_body, with_stack, lines, records, decPc, exit_path>>
    /\ UNCHANGED notDec

\* streams.py:299-300: iter_content or f.write raises
WriteFails ==
    /\ decPc = "writing"
    /\ Leave(with_stack, "write_error")
    /\ UNCHANGED <<response_body, unsent, lines, records>>
    /\ UNCHANGED notDec

\* streams.py:294-300: the body is spooled, the inner with statement is left
ExitInnerWith ==
    /\ decPc = "writing"
    /\ unsent = <<>>
    /\ res' = ExitAll(InnerWithItems, res)
    /\ with_stack' = SubSeq(with_stack, 1, Len(with_stack) - Len(InnerWithItems))
    /\ decPc' = "written"
    /\ UNCHANGED <<response_body, unsent, lines, records, exit_path>>
    /\ UNCHANGED notDec

\* streams.py:302-305: the spool file is opened for reading
OpenForRead ==
    /\ decPc = "written"
    /\ res' = [res EXCEPT !.handle = "r"]
    /\ with_stack' = Append(with_stack, "file")
    /\ lines' = ReadLines(Val(res.spool), <<>>)
    /\ decPc' = "reading"
    /\ UNCHANGED <<response_body, unsent, records, exit_path>>
    /\ UNCHANGED notDec

\* streams.py:306: the next line is parsed and its record yielded, or json.loads raises
ReadLine ==
    /\ decPc = "reading"
    /\ lines # <<>>
    /\ LET record == json_loads(Head(lines))
       IN  IF IsNone(record)
           THEN /\ Leave(with_stack, "parse_error")
                /\ UNCHANGED <<lines, records>>
           ELSE /\ records' = Append(records, Val(record))
                /\ lines' = Tail(lines)
                /\ decPc' = "yielded"
                /\ UNCHANGED <<res, with_stack, exit_path>>
    /\ UNCHANGED <<response_body, unsent>>
    /\ UNCHANGED notDec

\* the consumer asks the generator for the next record
Resume ==
    /\ decPc = "yielded"
    /\ decPc' = "reading"
    /\ UNCHANGED <<response_body, unsent, res, with_stack, lines, records, exit_path>>
    /\ UNCHANGED notDec

\* the consumer drops the generator at a yield: GeneratorExit is raised there
Close ==
    /\ decPc = "yielded"
    /\ Leave(with_stack, "closed")
    /\ UNCHANGED <<response_body, unsent, lines, records>>
    /\ UNCHANGED notDec

\* streams.py:305-308: no line is left, the with statements are left
Finish ==
    /\ decPc = "reading"
    /\ lines = <<>>
    /\ Leave(with_stack, "consumed")
    /\ UNCHANGED <<response_body, unsent, lines, records>>
    /\ UNCHANGED notDec

(***************************************************************************)
(* DATE-TIME COERCION (IterableStream.post_process, client.py:77-103, and  *)
(* _ExportStream.post_process, streams.py:310-327, which replaces it).     *)
(* A value of a record is [t, n, micro]: t is its Python type ("absent"    *)
(* for a key the record lacks), n the number (for a str its length, for an *)
(* ISO string its whole seconds since the epoch), micro the microseconds   *)
(* of an ISO string.                                                       *)
(***************************************************************************)

\* the largest epoch (milliseconds) and the largest float of a response
MaxEpoch == 1001

MaxFloat == 1

\* client.py:97, `value / 1000`
MsPerSecond == 1000

DTValue(t, n, micro) == [t |-> t, n |-> n, micro |-> micro]

Absent == DTValue("absent", 0, 0)

NoneDT == DTValue("None", 0, 0)

\* "" and a non-empty string
StrValues == {DTValue("str", n, 0) : n \in 0..1}

IntValues == {DTValue("int", n, 0) : n \in 0..MaxEpoch}

FloatValues == {DTValue("float", n, 0) : n \in 0..MaxFloat}

\* what the response may hold under a key
DTValues == {Absent, NoneDT} \cup StrValues \cup IntValues \cup FloatValues

\* self.schema["properties"]: the format of each property ("" for none)
DTSchema == [updatedAt |-> "date-time", id |-> ""]

\* the records of a response: updatedAt holds anything, id an integer or nothing
DTRows == {r \in [DOMAIN DTSchema -> DTValues] :
              r.id \in {Absent, DTValue("int", 1, 0)}}

\* client.py:77-85
_date_time_properties(properties) ==
    {name \in DOMAIN properties : properties[name] = "date-time"}

\* client.py:92, `not value`: None, "", 0 and 0.0 are false
Falsy(value) ==
    \/ value.t \in {"absent", "None"}
    \/ value.t \in {"str", "int", "float"} /\ value.n = 0

\* client.py:96-99: datetime.fromtimestamp(value / 1000, tz=utc).isoformat()
fromtimestamp_isoformat(value) ==
    DTValue("iso", value \div MsPerSecond, (value % MsPerSecond) * 1000)

\* client.py:90-101, the loop body for one date-time property
Coerce(value) ==
    IF Falsy(value) THEN value
    ELSE IF value.t = "int" THEN fromtimestamp_isoformat(value.n)
    ELSE value

\* client.py:87-103
IterablePostProcess(properties, row) ==
    [name \in DOMAIN row |->
        IF name \in _date_time_properties(properties) THEN Coerce(row[name])
        ELSE row[name]]

\* streams.py:310-327 for a record that has its primary keys and no
\* transactionalData: the record is returned as it came; the method does not
\* call super().post_process, so client.py:87-103 never runs for these streams
ExportDateTimePostProcess(properties, row) == row

\* "rest": a stream that inherits IterableStream.post_process (campaigns,
\* templates, ...); "export": a subclass of _ExportStream
DTStreams == {"rest", "export"}

DTPostProcess(stream, row) ==
    IF stream = "export" THEN ExportDateTimePostProcess(DTSchema, row)
    ELSE IterablePostProcess(DTSchema, row)

DTIdle ==
    /\ dt_stream = ""
    /\ dt_row = None
    /\ dt_result = None

DTInit ==
    /\ dt_stream \in DTStreams
    /\ dt_row = None
    /\ dt_result = None

\* the sync hands the next record of the response to post_process
PostProcessRow(row) ==
    /\ dt_stream \in DTStreams
    /\ IsNone(dt_row)
    /\ dt_row' = Some(row)
    /\ dt_result' = Some(DTPostProcess(dt_stream, row))
    /\ UNCHANGED dt_stream
    /\ UNCHANGED notDT

\* the sync writes the record post_process returned and moves on
WriteRecord ==
    /\ dt_stream \in DTStreams
    /\ ~IsNone(dt_row)
    /\ dt_row' = None
    /\ dt_result' = None
    /\ UNCHANGED dt_stream
    /\ UNCHANGED notDT

(***************************************************************************)
(* TEMPLATES FAN-OUT (_TemplatesContextStream, streams.py:122-139, and     *)
(* TemplatesStream, streams.py:142-178).  A context and a record are       *)
(* functions from keys to values.  The SDK syncs the templates stream once *)
(* for every record of _templates_context, with get_child_context of that  *)
(* record as its context, and for every template record it calls           *)
(* _sync_children with get_child_context of the record.                    *)
(***************************************************************************)
MaxTemplates == 2

MaxTemplateId == 2

\* streams.py:131
template_types == <<"Base", "Blast", "Triggered", "Workflow">>

\* streams.py:132
message_mediums == <<"Email", "Push", "InApp", "SMS">>

\* itertools.product(a, b): the pairs in order, the last position fastest
product(a, b) ==
    [i \in 1..(Len(a) * Len(b)) |->
        <<a[((i - 1) \div Len(b)) + 1], b[((i - 1) % Len(b)) + 1]>>]

\* streams.py:129-135
get_records ==
    LET pairs == product(template_types, message_mediums)
    IN  [i \in 1..Len(pairs) |->
            [templateType |-> pairs[i][1], messageMedium |-> pairs[i][2]]]

\* streams.py:137-139
TemplatesContext_get_child_context(record, context) == record

\* {**context, key: value}
DictWith(context, key, value) ==
    [k \in DOMAIN context \cup {key} |-> IF k = key THEN value ELSE context[k]]

\* get_child_context without the test of the medium
get_child_context_any_medium(record, context) ==
    Some(DictWith(context, "templateId", record.templateId))

\* streams.py:164-169
get_child_context(record, context) ==
    IF context.messageMedium = "Email"
    THEN Some(DictWith(context, "templateId", record.templateId))
    ELSE None

\* self.child_streams of the templates stream: email_templates is the only
\* stream whose parent_stream_type is TemplatesStream (streams.py:184), and no
\* stream has email_templates as its parent
child_streams(selected) ==
    <<[name |-> "email_templates", selected |-> selected,
       has_selected_descendents |-> FALSE]>>

RECURSIVE SyncCalls(_, _)
\* streams.py:176-178: the sync calls of the loop over the child streams
SyncCalls(streams, child_context) ==
    IF streams = <<>> THEN <<>>
    ELSE (IF Head(streams).selected \/ Head(streams).has_selected_descendents
          THEN <<[stream |-> Head(streams).name, context |-> child_context]>>
          ELSE <<>>)
         \o SyncCalls(Tail(streams), child_context)

\* streams.py:171-178
_sync_children(streams, child_context) ==
    IF IsNone(child_context) THEN <<>>
    ELSE SyncCalls(streams, Val(child_context))

TplIdle ==
    /\ child_selected = FALSE
    /\ tpl_pending = <<>>
    /\ tpl_context = None
    /\ tpl_records = <<>>
    /\ child_syncs = <<>>
    /\ tplPc = "idle"

\* the sync of _templates_context starts; email_templates is selected or not
TplInit ==
    /\ child_selected \in BOOLEAN
    /\ tpl_pending = get_records
    /\ tpl_context = None
    /\ tpl_records = <<>>
    /\ child_syncs = <<>>
    /\ tplPc = "running"

\* _templates_context yields its next record and the templates stream is
\* synced with it as context
SyncTemplates ==
    /\ tplPc = "running"
    /\ tpl_pending # <<>>
    /\ tpl_context' = Some(TemplatesContext_get_child_context(Head(tpl_pending), None))
    /\ tpl_pending' = Tail(tpl_pending)
    /\ tpl_records' = <<>>
    /\ child_syncs' = <<>>
    /\ UNCHANGED <<child_selected, tplPc>>
    /\ UNCHANGED notTpl

\* the templates stream yields a record under the current context
ProcessTemplate(templateId) ==
    /\ tplPc = "running"
    /\ ~IsNone(tpl_context)
    /\ Len(tpl_records) < MaxTemplates
    /\ LET record == [templateId |-> templateId]
           child_context == get_child_context(record, Val(tpl_context))
       IN  child_syncs' = child_syncs
                \o _sync_children(child_streams(child_selected), child_context)
    /\ tpl_records' = Append(tpl_records, templateId)
    /\ UNCHANGED <<child_selected, tpl_pending, tpl_context, tplPc>>
    /\ UNCHANGED notTpl

\* the last context has been synced
FinishTemplates ==
    /\ tplPc = "running"
    /\ tpl_pending = <<>>
    /\ tplPc' = "done"
    /\ UNCHANGED <<child_selected, tpl_pending, tpl_context, tpl_records, child_syncs>>
    /\ UNCHANGED notTpl

(***************************************************************************)
(* CAMPAIGNS (CampaignsStream, streams.py:69-99, and                       *)
(* ExperimentMetrics.get_url_params, streams.py:631-636).  The response    *)
(* holds the campaigns 1..campaigns, the id of the i-th being i.  For      *)
(* every record parse_response yields, the SDK calls                            *)
(* generate_child_contexts and syncs experiment_metrics with every context *)
(* it yields, before it resumes parse_response.                            *)
(***************************************************************************)
MaxCampaigns == 401

\* streams.py:82
campaign_ids_maxlen == 400

\* super().parse_response(response): the records of $.campaigns[*]
ResponseRecords(n) == [i \in 1..n |-> [id |-> i]]

\* streams.py:93-99: the contexts yielded for a record, and the buffer after
generate_child_contexts(buf, record) ==
    LET r == ReadBuffer(BufAppend(buf, record.id))
    IN  [contexts |-> IF IsNone(r.batch) THEN <<>>
                      ELSE <<[campaign_ids |-> Val(r.batch)]>>,
         buf |-> r.buf]

\* streams.py:631-636
get_campaign_url_params(context) == [campaignId |-> context.campaign_ids]

\* the requests of the experiment_metrics syncs made for a record
ChildRequests(contexts) ==
    [i \in 1..Len(contexts) |-> get_campaign_url_params(contexts[i])]

CmpIdle ==
    /\ campaigns = 0
    /\ cmpPc = "idle"
    /\ loop_record = None
    /\ yielded = <<>>
    /\ _campaign_ids_buffer = NewBuffer(0)
    /\ child_requests = <<>>

\* streams.py:79-82, and a response of any size arriving
CmpInit ==
    /\ campaigns \in 0..MaxCampaigns
    /\ cmpPc = "loop"
    /\ loop_record = None
    /\ yielded = <<>>
    /\ _campaign_ids_buffer = NewBuffer(campaign_ids_maxlen)
    /\ child_requests = <<>>

\* a record is yielded and its child contexts are generated and synced
Yield(rec) ==
    LET g == generate_child_contexts(_campaign_ids_buffer, rec)
    IN  /\ yielded' = Append(yielded, rec)
        /\ _campaign_ids_buffer' = g.buf
        /\ child_requests' = child_requests \o ChildRequests(g.contexts)

\* streams.py:86-87: the loop yields the next record of the response
YieldRecord ==
    /\ cmpPc = "loop"
    /\ Len(yielded) < campaigns
    /\ LET rec == ResponseRecords(campaigns)[Len(yielded) + 1]
       IN  /\ loop_record' = Some(rec)
           /\ Yield(rec)
    /\ UNCHANGED <<campaigns, cmpPc>>
    /\ UNCHANGED notCmp

\* streams.py:89-90: the loop is over, the buffer is finalized
Finalize ==
    /\ cmpPc = "loop"
    /\ Len(yielded) = campaigns
    /\ _campaign_ids_buffer' = BufFinalize(_campaign_ids_buffer)
    /\ cmpPc' = "finalized"
    /\ UNCHANGED <<campaigns, loop_record, yielded, child_requests>>
    /\ UNCHANGED notCmp

\* streams.py:91: the loop variable is yielded again, and the generator ends
YieldLastAgain ==
    /\ cmpPc = "finalized"
    /\ ~IsNone(loop_record)
    /\ Yield(Val(loop_record))
    /\ cmpPc' = "done"
    /\ UNCHANGED <<campaigns, loop_record>>
    /\ UNCHANGED notCmp

\* streams.py:91: the loop never ran, `record` is unbound: UnboundLocalError
YieldUnbound ==
    /\ cmpPc = "finalized"
    /\ IsNone(loop_record)
    /\ cmpPc' = "raised"
    /\ UNCHANGED <<campaigns, loop_record, yielded, _campaign_ids_buffer, child_requests>>
    /\ UNCHANGED notCmp

PagNext ==
    \/ \E d \in 1..MaxTick : Tick(d)
    \/ \E n \in 0..MaxPageRecords : FetchPage(n)
    \/ Advance

\* the request loop is sequential code: it keeps running until it ends
InitPag ==
    /\ PagInit
    /\ BufIdle
    /\ PPIdle
    /\ HdrIdle
    /\ NumIdle
    /\ DecIdle
    /\ DTIdle
    /\ TplIdle
    /\ CmpIdle

SpecPag ==
    /\ InitPag
    /\ [][PagNext]_vars
    /\ WF_vars(\E n \in 0..MaxPageRecords : FetchPage(n))
    /\ WF_vars(Advance)

BufNext ==
    \/ \E id \in 1..MaxId : AppendAndRead(id)
    \/ FinalizeAndRead

InitBuf ==
    /\ BufInit
    /\ PagIdle
    /\ PPIdle
    /\ HdrIdle
    /\ NumIdle
    /\ DecIdle
    /\ DTIdle
    /\ TplIdle
    /\ CmpIdle

SpecBuf ==
    /\ InitBuf
    /\ [][BufNext]_vars

PPNext == \E row \in Rows : ProcessRecord(row)

InitPP ==
    /\ PPInit
    /\ PagIdle
    /\ BufIdle
    /\ HdrIdle
    /\ NumIdle
    /\ DecIdle
    /\ DTIdle
    /\ TplIdle
    /\ CmpIdle

SpecPP ==
    /\ InitPP
    /\ [][PPNext]_vars

HdrNext ==
    \/ NormalizeHeader
    \/ NormalizeAgain

InitHdr ==
    /\ HdrInit
    /\ PagIdle
    /\ BufIdle
    /\ PPIdle
    /\ NumIdle
    /\ DecIdle
    /\ DTIdle
    /\ TplIdle
    /\ CmpIdle

SpecHdr ==
    /\ InitHdr
    /\ [][HdrNext]_vars

NumNext == ProcessValue

InitNum ==
    /\ NumInit
    /\ PagIdle
    /\ BufIdle
    /\ PPIdle
    /\ HdrIdle
    /\ DecIdle
    /\ DTIdle
    /\ TplIdle
    /\ CmpIdle

SpecNum ==
    /\ InitNum
    /\ [][NumNext]_vars

DecNext ==
    \/ EnterTemporaryDirectory
    \/ EnterInnerWith
    \/ OpenFails
    \/ \E k \in 1..MaxChunk : WriteChunk(k)
    \/ WriteFails
    \/ ExitInnerWith
    \/ OpenForRead
    \/ ReadLine
    \/ Resume
    \/ Close
    \/ Finish

InitDec ==
    /\ DecInit
    /\ PagIdle
    /\ BufIdle
    /\ PPIdle
    /\ HdrIdle
    /\ NumIdle
    /\ DTIdle
    /\ TplIdle
    /\ CmpIdle

SpecDec ==
    /\ InitDec
    /\ [][DecNext]_vars

DTNext ==
    \/ \E row \in DTRows : PostProcessRow(row)
    \/ WriteRecord

InitDT ==
    /\ DTInit
    /\ PagIdle
    /\ BufIdle
    /\ PPIdle
    /\ HdrIdle
    /\ NumIdle
    /\ DecIdle
    /\ TplIdle
    /\ CmpIdle

SpecDT ==
    /\ InitDT
    /\ [][DTNext]_vars

TplNext ==
    \/ SyncTemplates
    \/ \E templateId \in 1..MaxTemplateId : ProcessTemplate(templateId)
    \/ FinishTemplates

InitTpl ==
    /\ TplInit
    /\ PagIdle
    /\ BufIdle
    /\ PPIdle
    /\ HdrIdle
    /\ NumIdle
    /\ DecIdle
    /\ DTIdle
    /\ CmpIdle

SpecTpl ==
    /\ InitTpl
    /\ [][TplNext]_vars

CmpNext ==
    \/ YieldRecord
    \/ Finalize
    \/ YieldLastAgain
    \/ YieldUnbound

InitCmp ==
    /\ CmpInit
    /\ PagIdle
    /\ BufIdle
    /\ PPIdle
    /\ HdrIdle
    /\ NumIdle
    /\ DecIdle
    /\ DTIdle
    /\ TplIdle

SpecCmp ==
    /\ InitCmp
    /\ [][CmpNext]_vars

(***************************************************************************)
(* CLAIMS: paginator                                                       *)
(***************************************************************************)

\* C1 (as stated): whatever the clock does, every pagination eventually ends.
C1_AlwaysEnds == <>(pagPc = "ended")

\* C1 (amended): provided the clock advances by less than the interval between
\* two consecutive reads of datetime.now() by the paginator, the pagination
\* eventually ends (get_next has returned None).
C1_EndsWhenClockSlower == <>(pagPc = "ended" \/ elapsed >= interval)

\* a pagination of several requests that ended while the clock stayed slower
C1_Witness ==
    /\ pagPc = "ended"
    /\ ~IsNone(prev_params)
    /\ elapsed < interval

\* C2: a cursor with a concrete end is followed by the cursor starting at that
\* end, every concrete end is its start plus the interval, the starts strictly
\* increase, and the requested windows join: each request's startDateTime is the
\* endDateTime of the request before it.
C2_Contiguous ==
    /\ ~IsNone(current_value[2]) => Val(current_value[2]) = current_value[1] + interval
    /\ (~IsNone(last_call) /\ ~IsNone(Val(last_call).ret)) =>
          LET prev == Val(last_call).arg
              next == Val(Val(last_call).ret)
          IN  /\ ~IsNone(prev[2])
              /\ Val(prev[2]) = prev[1] + interval
              /\ next[1] = Val(prev[2])
              /\ next[1] > prev[1]
    /\ (~IsNone(prev_params) /\ ~IsNone(params)) =>
          /\ ~IsNone(Val(prev_params).endDateTime)
          /\ Val(params).startDateTime = Val(Val(prev_params).endDateTime)

\* two consecutive requests, the second for a cursor with a concrete end
C2_Witness ==
    /\ ~IsNone(prev_params)
    /\ ~IsNone(last_call)
    /\ ~IsNone(Val(last_call).ret)
    /\ ~IsNone(current_value[2])
    /\ pagPc = "advance"

\* C3: the loop ends only because get_next returned None, get_next returns None
\* exactly when the cursor's end is None, and every fetched page, empty or not,
\* is followed by a get_next call.
C3_EndsOnlyOnNoneEnd ==
    /\ pagPc = "ended" => (stopReason = "get_next_none" /\ IsNone(current_value[2]))
    /\ ~IsNone(last_call) => (IsNone(Val(last_call).ret) <=> IsNone(Val(last_call).arg[2]))
    /\ (~IsNone(params) /\ pagPc # "advance") => ~IsNone(last_call)

\* an empty page after which the cursor advanced to the next interval
C3_Witness ==
    /\ page_records = 0
    /\ pagPc = "request"
    /\ ~IsNone(last_call)
    /\ ~IsNone(Val(last_call).ret)
    /\ current_value = Val(Val(last_call).ret)

(***************************************************************************)
(* CLAIMS: aggregation buffer                                              *)
(***************************************************************************)

\* the i-th chunk of n items of s (the last one may be shorter)
Chunk(s, n, i) == SubSeq(s, (i - 1) * n + 1, Min(i * n, Len(s)))

MissingPrimaryKey ==
    /\ ~IsNone(last_row)
    /\ primary_keys(pp_stream) # <<>>
    /\ BadKeys(primary_keys(pp_stream), Val(last_row)) # <<>>

\* C5: for every export stream with primary keys and every record lacking one of
\* them (absent or None), post_process returns no record, logs exactly one
\* warning naming the offending keys, raises nothing, and the sync continues.
C5_MissingKeyDropsRecord ==
    MissingPrimaryKey =>
        /\ IsNone(Val(last_result).ret)
        /\ Val(last_result).warnings = <<BadKeys(primary_keys(pp_stream), Val(last_row))>>
        /\ Val(last_result).raised = ""
        /\ ppPc = "running"

\* C6: in the users stream a record whose email is absent or None is dropped by
\* the primary-key gate before any bucketing: post_process returns no record,
\* raises nothing, buckets nothing, and the sync continues.
C6_UsersGateBeforeBucketing ==
    (pp_stream = "users" /\ ~IsNone(last_row) /\ Get(Val(last_row), "email") = "null") =>
        /\ IsNone(Val(last_result).ret)
        /\ Val(last_result).raised = ""
        /\ Val(last_result).bucketed = {}
        /\ ppPc = "running"

(***************************************************************************)
(* CLAIMS: CSV header normalization                                        *)
(***************************************************************************)

\* C7 (as stated): normalizing a normalized header changes nothing.
C7_Idempotent == ~IsNone(new_key2) => Val(new_key2) = Val(new_key)

\* C7 (amended): normalizing a normalized header lower-cases it, so the
\* normalization is idempotent exactly on the headers whose normalized form
\* holds no upper-case letter.
C7_SecondPassLowerCases ==
    ~IsNone(new_key2) =>
        /\ Val(new_key2) = Lower(Val(new_key))
        /\ (Val(new_key2) = Val(new_key)) <=>
               (\A i \in 1..Len(Val(new_key)) : Val(new_key)[i] \notin UpperLetters)

\* a header of two words: "a a" becomes "aA", and "aA" becomes "aa"
C7_Witness ==
    /\ ~IsNone(new_key2)
    /\ Val(header) = <<"a", " ", "a">>
    /\ Val(new_key) = <<"a", "A">>
    /\ Val(new_key2) = <<"a", "a">>

(***************************************************************************)
(* CLAIMS: numeric retyping                                                *)
(***************************************************************************)

\* the number of characters of s that are in the set cs
CountIn(s, cs) == Cardinality({i \in 1..Len(s) : s[i] \in cs})

\* a plain finite numeral: an optional sign, then digits with at most one point
\* and at least one digit
FiniteNumeral(s) ==
    LET body == IF s # <<>> /\ s[1] = "-" THEN Tail(s) ELSE s
    IN  /\ \A i \in 1..Len(body) : body[i] \in Digits \cup {"."}
        /\ CountIn(body, {"."}) <= 1
        /\ CountIn(body, Digits) >= 1

NewlineAt(body) == {i \in 1..Len(body) : body[i] = "\n"}

\* the number of lines of a body: one per "\n", and one more for a last line
\* that "\n" does not end
LineCount(body) ==
    Cardinality(NewlineAt(body))
        + (IF body # <<>> /\ body[Len(body)] # "\n" THEN 1 ELSE 0)

\* the i-th line of a body, without its "\n": from after the line end before it
\* to before the next one
LineOf(body, i) ==
    LET ends == NewlineAt(body) \cup {0, Len(body) + 1}
        before == CHOOSE e \in ends : Cardinality({x \in ends : x < e}) = i - 1
        after == CHOOSE e \in ends : Cardinality({x \in ends : x < e}) = i
    IN  SubSeq(body, before + 1, after - 1)

\* every line of the body is a JSON document
WellFormedBody(body) ==
    \A i \in 1..LineCount(body) :
        LineOf(body, i) # <<>> /\ AllDigits(LineOf(body, i))

\* C10: for a body of N well-formed lines, however it is split into chunks,
\* the decode does not fail on parsing, and when all is consumed it has
\* yielded exactly N records, the i-th being the parse of the i-th line.
C10_OneRecordPerLine ==
    WellFormedBody(response_body) =>
        /\ exit_path # "parse_error"
        /\ Len(records) <= LineCount(response_body)
        /\ \A i \in 1..Len(records) : records[i] = DigitsValue(LineOf(response_body, i))
        /\ exit_path = "consumed" => Len(records) = LineCount(response_body)

\* two lines, the body spooled in more than one chunk, both records yielded
C10_Witness ==
    /\ exit_path = "consumed"
    /\ response_body = <<"1", "2", "\n", "2">>
    /\ records = <<12, 2>>

(***************************************************************************)
(* CLAIMS: date-time coercion                                              *)
(***************************************************************************)

\* C11: for every property the schema declares as date-time, post_process turns
\* every numeric epoch value v >= 0 (milliseconds) into the ISO-8601 UTC string
\* of that instant, leaves every string unchanged, leaves a missing or empty
\* value unchanged, and leaves no date-time property holding a number.
C11_DateTimesNormalized ==
    ~IsNone(dt_result) =>
        \A name \in _date_time_properties(DTSchema) :
            LET v == Val(dt_row)[name]
                w == Val(dt_result)[name]
            IN  /\ v.t \in {"int", "float"} => w = fromtimestamp_isoformat(v.n)
                /\ v.t = "str" => w = v
                /\ v.t \in {"absent", "None"} => w = v
                /\ w.t \notin {"int", "float"}

(***************************************************************************)
(* CLAIMS: templates fan-out                                               *)
(***************************************************************************)

\* the parent context plus templateId
PlusTemplateId(context, templateId) ==
    [templateType |-> context.templateType,
     messageMedium |-> context.messageMedium,
     templateId |-> templateId]

\* C12: _templates_context enumerates 16 contexts; under each of them
\* email_templates is synced for a template record if and only if the context's
\* messageMedium is "Email" and email_templates is selected, and then exactly
\* once per template record, in order, with the parent context plus templateId;
\* under every other medium it is not synced.
C12_ChildSyncedForEmailOnly ==
    /\ Len(get_records) = 16
    /\ Cardinality({get_records[i] : i \in DOMAIN get_records}) = 16
    /\ ~IsNone(tpl_context) =>
        LET context == Val(tpl_context)
        IN  IF context.messageMedium = "Email" /\ child_selected
            THEN child_syncs =
                    [i \in 1..Len(tpl_records) |->
                        [stream |-> "email_templates",
                         context |-> PlusTemplateId(context, tpl_records[i])]]
            ELSE child_syncs = <<>>

\* two templates have been synced under an Email context with the child selected
C12_Witness ==
    /\ child_selected
    /\ ~IsNone(tpl_context)
    /\ Val(tpl_context).messageMedium = "Email"
    /\ Val(tpl_context).templateType = "Workflow"
    /\ Len(tpl_records) = MaxTemplates
    /\ Len(child_syncs) = MaxTemplates

(***************************************************************************)
(* CLAIMS: campaigns                                                       *)
(***************************************************************************)

RECURSIVE Concat(_)
\* the batches of the requests, concatenated in order
Concat(requests) ==
    IF requests = <<>> THEN <<>>
    ELSE Head(requests).campaignId \o Concat(Tail(requests))

\* the ids of the n records of the response, in order
ResponseIds(n) == [i \in 1..n |-> ResponseRecords(n)[i].id]

\* C13: for a response of n >= 1 campaigns, once parse_response has ended, the
\* campaign_ids batches handed to experiment_metrics, concatenated in order,
\* are the ids of the n records (every id in exactly one batch, exactly once),
\* and every batch has at most 400 ids.
C13_BatchesPartitionIds ==
    (cmpPc = "done" /\ campaigns >= 1) =>
        /\ Concat(child_requests) = ResponseIds(campaigns)
        /\ \A i \in 1..Len(child_requests) :
              Len(child_requests[i].campaignId) <= 400

\* C14: for a response of n >= 0 campaigns, parse_response ends without raising
\* and has yielded exactly the n records of the response, in response order.
C14_YieldsEachRecordOnce ==
    /\ cmpPc # "raised"
    /\ cmpPc = "done" => yielded = ResponseRecords(campaigns)

====
